---- MODULE Spec2Model ----
(***************************************************************************)
(* A model of xyproto/jman: the dynamically typed JSON node (jman.go), the *)
(* restricted path resolver and the file session with its two mutators     *)
(* (jfile.go).                                                             *)
(*                                                                         *)
(* Go strings and byte slices are sequences of one-character strings, so   *)
(* that encoding, the byte splice of AddJSON and decoding are computed on  *)
(* the characters, as the code computes them.                              *)
(***************************************************************************)
EXTENDS Integers, Sequences, FiniteSets, TLC

(***************************************************************************)
(* Bounds of the model.                                                    *)
(***************************************************************************)
\* number of mutating calls (SetString, AddJSON) made on one session
MaxOps == 2
\* number of goroutines calling Write concurrently on one session
MaxWriters == 2

(***************************************************************************)
(* Characters.                                                             *)
(***************************************************************************)
QUOTE == "\""
BSLASH == "\\"
NL == "\n"
SP == " "

DigitChars == <<"0", "1", "2", "3", "4", "5", "6", "7", "8", "9">>

IsDigit(c) == \E i \in 1..Len(DigitChars) : DigitChars[i] = c

DigitVal(c) == (CHOOSE i \in 1..Len(DigitChars) : DigitChars[i] = c) - 1

\* the characters of the model in byte order, for the comparison of keys
CharOrder == <<"\n", " ", "\"", "+", ",", "-", ".",
               "0", "1", "2", "3", "4", "5", "6", "7", "8", "9", ":",
               "[", "\\", "]",
               "a", "b", "c", "d", "e", "f", "g", "h", "i", "j", "k", "l", "m",
               "n", "o", "p", "q", "r", "s", "t", "u", "v", "w", "x", "y", "z",
               "{", "}">>

Code(c) == CHOOSE i \in 1..Len(CharOrder) : CharOrder[i] = c

\* s < t in the byte order of Go strings
RECURSIVE StrLess(_, _)
StrLess(s, t) ==
    IF Len(t) = 0 THEN FALSE
    ELSE IF Len(s) = 0 THEN TRUE
    ELSE IF s[1] = t[1] THEN StrLess(Tail(s), Tail(t))
    ELSE Code(s[1]) < Code(t[1])

\* strings.Contains(s, c) for a one-character c
Contains(s, c) == \E i \in 1..Len(s) : s[i] = c

\* strings.Index(s, c) for a one-character c, 1-based, 0 when absent
Index(s, c) ==
    IF Contains(s, c)
    THEN CHOOSE i \in 1..Len(s) : s[i] = c /\ \A j \in 1..(i - 1) : s[j] # c
    ELSE 0

\* strings.LastIndex(s, c) for a one-character c, 1-based, 0 when absent
LastIndex(s, c) ==
    IF Contains(s, c)
    THEN CHOOSE i \in 1..Len(s) : s[i] = c /\ \A j \in (i + 1)..Len(s) : s[j] # c
    ELSE 0

\* s[from:] with a 1-based from
Drop(s, from) == SubSeq(s, from, Len(s))

(***************************************************************************)
(* The dynamic values a Node wraps (Node.data, an interface{}).            *)
(* A JSON object has one of two dynamic types: map[string]interface{},     *)
(* which the decoder produces, and the defined type AnyMap, which NewNode  *)
(* and SetPath produce; anymap tells them apart.  The keys of a map are    *)
(* kept in byte order, the order in which json.Marshal emits them.         *)
(***************************************************************************)
Nil == [kind |-> "nil"]

JBool(b) == [kind |-> "bool", b |-> b]

JNumber(s) == [kind |-> "number", s |-> s]

JString(s) == [kind |-> "string", s |-> s]

JArray(es) == [kind |-> "array", elems |-> es]

EmptyMap == [kind |-> "map", anymap |-> FALSE, keys |-> <<>>, vals |-> <<>>]

HasKey(m, k) == \E i \in 1..Len(m.keys) : m.keys[i] = k

KeyPos(m, k) == CHOOSE i \in 1..Len(m.keys) : m.keys[i] = k

MapGet(m, k) == m.vals[KeyPos(m, k)]

\* m[k] = v on a Go map
MapPut(m, k, v) ==
    IF HasKey(m, k)
    THEN [m EXCEPT !.vals[KeyPos(m, k)] = v]
    ELSE LET n == Cardinality({i \in 1..Len(m.keys) : StrLess(m.keys[i], k)})
         IN  [m EXCEPT !.keys = SubSeq(m.keys, 1, n) \o <<k>> \o Drop(m.keys, n + 1),
                       !.vals = SubSeq(m.vals, 1, n) \o <<v>> \o Drop(m.vals, n + 1)]

(***************************************************************************)
(* json.Marshal, as Node.Encode and Node.MarshalJSON call it.              *)
(***************************************************************************)
RECURSIVE EscapeString(_)
EscapeString(s) ==
    IF Len(s) = 0 THEN <<>>
    ELSE (IF s[1] = QUOTE \/ s[1] = BSLASH THEN <<BSLASH, s[1]>> ELSE <<s[1]>>)
         \o EscapeString(Tail(s))

EncodeString(s) == <<QUOTE>> \o EscapeString(s) \o <<QUOTE>>

RECURSIVE Marshal(_)
RECURSIVE MarshalElems(_, _)
RECURSIVE MarshalMembers(_, _)
Marshal(v) ==
    CASE v.kind = "nil" -> <<"n", "u", "l", "l">>
      [] v.kind = "bool" -> IF v.b THEN <<"t", "r", "u", "e">>
                                   ELSE <<"f", "a", "l", "s", "e">>
      [] v.kind = "number" -> v.s
      [] v.kind = "string" -> EncodeString(v.s)
      [] v.kind = "array" -> <<"[">> \o MarshalElems(v.elems, 1) \o <<"]">>
      [] v.kind = "map" -> <<"{">> \o MarshalMembers(v, 1) \o <<"}">>

MarshalElems(es, i) ==
    IF i > Len(es) THEN <<>>
    ELSE (IF i > 1 THEN <<",">> ELSE <<>>) \o Marshal(es[i]) \o MarshalElems(es, i + 1)

MarshalMembers(m, i) ==
    IF i > Len(m.keys) THEN <<>>
    ELSE (IF i > 1 THEN <<",">> ELSE <<>>)
         \o EncodeString(m.keys[i]) \o <<":">> \o Marshal(m.vals[i])
         \o MarshalMembers(m, i + 1)

\* Node.Encode
Encode(v) == Marshal(v)

(***************************************************************************)
(* json.MarshalIndent(v, "", "  "), as Node.EncodePretty calls it.         *)
(***************************************************************************)
RECURSIVE Indent(_)
Indent(depth) == IF depth = 0 THEN <<>> ELSE <<SP, SP>> \o Indent(depth - 1)

NewLine(depth) == <<NL>> \o Indent(depth)

RECURSIVE MarshalIndent(_, _)
RECURSIVE IndentElems(_, _, _)
RECURSIVE IndentMembers(_, _, _)
MarshalIndent(v, depth) ==
    CASE v.kind = "array" ->
            IF Len(v.elems) = 0 THEN <<"[", "]">>
            ELSE <<"[">> \o IndentElems(v.elems, 1, depth + 1)
                 \o NewLine(depth) \o <<"]">>
      [] v.kind = "map" ->
            IF Len(v.keys) = 0 THEN <<"{", "}">>
            ELSE <<"{">> \o IndentMembers(v, 1, depth + 1)
                 \o NewLine(depth) \o <<"}">>
      [] OTHER -> Marshal(v)

IndentElems(es, i, depth) ==
    IF i > Len(es) THEN <<>>
    ELSE (IF i > 1 THEN <<",">> ELSE <<>>) \o NewLine(depth)
         \o MarshalIndent(es[i], depth) \o IndentElems(es, i + 1, depth)

IndentMembers(m, i, depth) ==
    IF i > Len(m.keys) THEN <<>>
    ELSE (IF i > 1 THEN <<",">> ELSE <<>>) \o NewLine(depth)
         \o EncodeString(m.keys[i]) \o <<":", SP>> \o MarshalIndent(m.vals[i], depth)
         \o IndentMembers(m, i + 1, depth)

\* Node.EncodePretty
EncodePretty(v) == MarshalIndent(v, 0)

(***************************************************************************)
(* json.Decoder.Decode with UseNumber, as Node.UnmarshalJSON calls it: it  *)
(* decodes the first JSON value of the input into an interface{} and does  *)
(* not look at what follows that value.  Objects become                    *)
(* map[string]interface{} (anymap = FALSE), numbers keep their text.       *)
(* A result is [ok, val, pos], pos the position after the value.           *)
(***************************************************************************)
IsSpace(c) == c = SP \/ c = NL

DecodeFail == [ok |-> FALSE, val |-> Nil, pos |-> 0]

Decoded(v, p) == [ok |-> TRUE, val |-> v, pos |-> p]

RECURSIVE SkipSpace(_, _)
SkipSpace(s, i) == IF i <= Len(s) /\ IsSpace(s[i]) THEN SkipSpace(s, i + 1) ELSE i

\* the literal lit stands at s[i..]
HasPrefixAt(s, i, lit) ==
    /\ i + Len(lit) - 1 <= Len(s)
    /\ \A j \in 1..Len(lit) : s[i + j - 1] = lit[j]

\* the body of a string literal from position i, after the opening quote
RECURSIVE ScanString(_, _, _)
ScanString(s, i, acc) ==
    IF i > Len(s) THEN DecodeFail
    ELSE IF s[i] = QUOTE THEN Decoded(acc, i + 1)
    ELSE IF s[i] = BSLASH
         THEN IF i + 1 <= Len(s) /\ (s[i + 1] = QUOTE \/ s[i + 1] = BSLASH)
              THEN ScanString(s, i + 2, Append(acc, s[i + 1]))
              ELSE DecodeFail
    ELSE IF s[i] = NL THEN DecodeFail
    ELSE ScanString(s, i + 1, Append(acc, s[i]))

RECURSIVE ScanDigits(_, _)
ScanDigits(s, i) == IF i <= Len(s) /\ IsDigit(s[i]) THEN ScanDigits(s, i + 1) ELSE i

\* an integer literal from position i: -? (0 | [1-9][0-9]*)
ScanNumber(s, i) ==
    LET j == IF i <= Len(s) /\ s[i] = "-" THEN i + 1 ELSE i
    IN  IF j > Len(s) \/ ~IsDigit(s[j]) THEN DecodeFail
        ELSE LET e == IF s[j] = "0" THEN j + 1 ELSE ScanDigits(s, j)
             IN  Decoded(JNumber(SubSeq(s, i, e - 1)), e)

RECURSIVE DecodeValue(_, _)
RECURSIVE DecodeElems(_, _, _)
RECURSIVE DecodeMembers(_, _, _)
DecodeValue(s, i0) ==
    LET i == SkipSpace(s, i0)
    IN  IF i > Len(s) THEN DecodeFail
        ELSE IF s[i] = "[" THEN
                LET j == SkipSpace(s, i + 1)
                IN  IF j <= Len(s) /\ s[j] = "]" THEN Decoded(JArray(<<>>), j + 1)
                    ELSE DecodeElems(s, j, <<>>)
        ELSE IF s[i] = "{" THEN
                LET j == SkipSpace(s, i + 1)
                IN  IF j <= Len(s) /\ s[j] = "}" THEN Decoded(EmptyMap, j + 1)
                    ELSE DecodeMembers(s, j, EmptyMap)
        ELSE IF s[i] = QUOTE THEN
                LET r == ScanString(s, i + 1, <<>>)
                IN  IF r.ok THEN Decoded(JString(r.val), r.pos) ELSE DecodeFail
        ELSE IF s[i] = "-" \/ IsDigit(s[i]) THEN ScanNumber(s, i)
        ELSE IF HasPrefixAt(s, i, <<"t", "r", "u", "e">>) THEN Decoded(JBool(TRUE), i + 4)
        ELSE IF HasPrefixAt(s, i, <<"f", "a", "l", "s", "e">>) THEN Decoded(JBool(FALSE), i + 5)
        ELSE IF HasPrefixAt(s, i, <<"n", "u", "l", "l">>) THEN Decoded(Nil, i + 4)
        ELSE DecodeFail

\* the elements of an array from position i, up to and including "]"
DecodeElems(s, i, acc) ==
    LET r == DecodeValue(s, i)
    IN  IF ~r.ok THEN DecodeFail
        ELSE LET j == SkipSpace(s, r.pos)
             IN  IF j > Len(s) THEN DecodeFail
                 ELSE IF s[j] = "]" THEN Decoded(JArray(Append(acc, r.val)), j + 1)
                 ELSE IF s[j] = "," THEN DecodeElems(s, j + 1, Append(acc, r.val))
                 ELSE DecodeFail

\* the members of an object from position i, up to and including "}"
DecodeMembers(s, i0, m) ==
    LET i == SkipSpace(s, i0)
    IN  IF i > Len(s) \/ s[i] # QUOTE THEN DecodeFail
        ELSE LET k == ScanString(s, i + 1, <<>>)
             IN  IF ~k.ok THEN DecodeFail
                 ELSE LET c == SkipSpace(s, k.pos)
                      IN  IF c > Len(s) \/ s[c] # ":" THEN DecodeFail
                          ELSE LET r == DecodeValue(s, c + 1)
                               IN  IF ~r.ok THEN DecodeFail
                                   ELSE LET j == SkipSpace(s, r.pos)
                                            m2 == MapPut(m, k.val, r.val)
                                        IN  IF j > Len(s) THEN DecodeFail
                                            ELSE IF s[j] = "}" THEN Decoded(m2, j + 1)
                                            ELSE IF s[j] = "," THEN DecodeMembers(s, j + 1, m2)
                                            ELSE DecodeFail

\* New(body): the root node's data and whether decoding succeeded
New(body) == DecodeValue(body, 1)

(***************************************************************************)
(* Nodes.  A *Node is a fresh wrapper around a value of the document: data *)
(* is the value; when the value is a map or a slice it shares its storage  *)
(* with the document, and loc (the steps from the root) says where, while  *)
(* at tells whether it is in the document at all.                          *)
(***************************************************************************)
KeyStep(k) == [isKey |-> TRUE, key |-> k, idx |-> 0]

IdxStep(i) == [isKey |-> FALSE, key |-> <<>>, idx |-> i]

RootNode(v) == [data |-> v, loc |-> <<>>, at |-> TRUE]

\* &Node{nil}
NilNode == [data |-> Nil, loc |-> <<>>, at |-> FALSE]

Child(j, step, v) == [data |-> v, loc |-> Append(j.loc, step), at |-> j.at]

\* Node.Map: the type assertion j.data.(AnyMap)
Map(v) == [ok |-> v.kind = "map" /\ v.anymap, m |-> v]

\* Node.Array: the type assertion j.data.([]interface{})
Array(v) == [ok |-> v.kind = "array", a |-> IF v.kind = "array" THEN v.elems ELSE <<>>]

\* Node.String: the type assertion j.data.(string)
String(v) == [ok |-> v.kind = "string", s |-> IF v.kind = "string" THEN v.s ELSE <<>>]

\* Node.Bool: the type assertion j.data.(bool)
Bool(v) == [ok |-> v.kind = "bool", b |-> IF v.kind = "bool" THEN v.b ELSE FALSE]

\* Node.MustString(args...): args holds the defaults the caller passed; more
\* than one is a log.Panicf
MustString(v, args) ==
    [panic |-> Len(args) > 1,
     val |-> IF String(v).ok THEN String(v).s
             ELSE IF Len(args) = 1 THEN args[1] ELSE <<>>]

\* Node.MustBool(args...)
MustBool(v, args) ==
    [panic |-> Len(args) > 1,
     val |-> IF Bool(v).ok THEN Bool(v).b
             ELSE IF Len(args) = 1 THEN args[1] ELSE FALSE]

\* Node.MustMap(args...); without a default the result is the nil map
MustMap(v, args) ==
    [panic |-> Len(args) > 1,
     val |-> IF Map(v).ok THEN Map(v).m
             ELSE IF Len(args) = 1 THEN args[1] ELSE Nil]

\* Node.MustArray(args...); without a default the result is the nil slice
MustArray(v, args) ==
    [panic |-> Len(args) > 1,
     val |-> IF Array(v).ok THEN JArray(Array(v).a)
             ELSE IF Len(args) = 1 THEN args[1] ELSE Nil]

\* Node.GetKey
GetKey(j, key) ==
    IF Map(j.data).ok /\ HasKey(j.data, key)
    THEN [node |-> Child(j, KeyStep(key), MapGet(j.data, key)), ok |-> TRUE]
    ELSE [node |-> NilNode, ok |-> FALSE]

\* Node.GetIndex; a[index] with a negative index is a runtime panic
GetIndex(j, index) ==
    IF Array(j.data).ok /\ Len(Array(j.data).a) > index
    THEN IF index < 0
         THEN [node |-> NilNode, ok |-> FALSE, panic |-> TRUE]
         ELSE [node |-> Child(j, IdxStep(index), Array(j.data).a[index + 1]),
               ok |-> TRUE, panic |-> FALSE]
    ELSE [node |-> NilNode, ok |-> FALSE, panic |-> FALSE]

\* Node.CheckGet with a branch of one string
CheckGet(j, key) == GetKey(j, key)

\* Node.Get with a branch of one string
Get(j, key) == IF CheckGet(j, key).ok THEN CheckGet(j, key).node ELSE NilNode

\* the value v with the value at loc replaced by w
RECURSIVE ReplaceAt(_, _, _)
ReplaceAt(v, loc, w) ==
    IF Len(loc) = 0 THEN w
    ELSE IF loc[1].isKey
         THEN [v EXCEPT !.vals[KeyPos(v, loc[1].key)] =
                            ReplaceAt(MapGet(v, loc[1].key), Tail(loc), w)]
         ELSE [v EXCEPT !.elems[loc[1].idx + 1] =
                            ReplaceAt(v.elems[loc[1].idx + 1], Tail(loc), w)]

\* Node.Set on node j of the document root: the document afterwards
Set(root, j, key, val) ==
    IF ~Map(j.data).ok THEN root
    ELSE IF j.at THEN ReplaceAt(root, j.loc, MapPut(j.data, key, val))
    ELSE root

(***************************************************************************)
(* The path resolver.                                                      *)
(***************************************************************************)
\* strconv.Atoi
RECURSIVE DigitsValue(_, _)
DigitsValue(s, acc) ==
    IF Len(s) = 0 THEN acc ELSE DigitsValue(Tail(s), 10 * acc + DigitVal(s[1]))

Atoi(s) ==
    LET signed == Len(s) > 0 /\ (s[1] = "-" \/ s[1] = "+")
        digs == IF signed THEN Tail(s) ELSE s
    IN  IF Len(digs) = 0 \/ \E i \in 1..Len(digs) : ~IsDigit(digs[i])
        THEN [ok |-> FALSE, val |-> 0]
        ELSE [ok |-> TRUE,
              val |-> IF signed /\ s[1] = "-" THEN 0 - DigitsValue(digs, 0)
                                             ELSE DigitsValue(digs, 0)]

\* the error values of jfile.go
NoErr == "nil"
ErrSpecificNode == "ErrSpecificNode"
ErrInvalidIndex == "Invalid index"
ErrCouldNotFindIndex == "Could not find index"
ErrLeftUnparsed == "JSON path left unparsed"
ErrCouldNotSet == "Index out of range? Could not set value."
ErrSingleKey == "The JSON path should not point to a single key when adding JSON data."
ErrDecode == "json syntax error"
ErrIO == "io error"
\* not an error value: the goroutine panicked
Panic == "panic: index out of range"

PathResult(node, left, err) == [node |-> node, left |-> left, err |-> err]

RECURSIVE jsonpath(_, _)
jsonpath(js, JSONpath) ==
    IF Len(JSONpath) = 0 THEN PathResult(js, JSONpath, ErrSpecificNode)
    ELSE
    LET dot == Index(JSONpath, ".")
        firstpart == IF dot > 0 THEN SubSeq(JSONpath, 1, dot - 1) ELSE JSONpath
        secondpart == IF dot > 0 THEN Drop(JSONpath, dot + 1) ELSE <<>>
    IN  IF firstpart = <<"x">> THEN jsonpath(js, secondpart)
        ELSE IF Contains(firstpart, "[") /\ Contains(firstpart, "]") THEN
            LET open == Index(firstpart, "[")
                name == SubSeq(firstpart, 1, open - 1)
                rest == Drop(firstpart, open + 1)
                close == Index(rest, "]")
                field == IF close > 0 THEN SubSeq(rest, 1, close - 1) ELSE rest
                js2 == IF name # <<"x">> THEN Get(js, name) ELSE js
                index == Atoi(field)
                found == GetIndex(js2, index.val)
            IN  IF ~index.ok THEN PathResult(js2, JSONpath, ErrInvalidIndex)
                ELSE IF found.panic THEN PathResult(js2, JSONpath, Panic)
                ELSE IF ~found.ok THEN PathResult(js2, JSONpath, ErrCouldNotFindIndex)
                ELSE jsonpath(found.node, secondpart)
        ELSE IF Len(secondpart) # 0 THEN PathResult(js, JSONpath, ErrLeftUnparsed)
        ELSE PathResult(Get(js, firstpart), <<>>, NoErr)

\* JFile.GetNode on a session whose root node wraps root.  jsonpath returns
\* no nil node, so the "Could not lookup" branch is never taken.
GetNode(root, JSONpath) ==
    LET r == jsonpath(RootNode(root), JSONpath)
    IN  IF r.err # NoErr THEN [node |-> Nil, err |-> r.err]
        ELSE IF Len(r.left) # 0 THEN [node |-> Nil, err |-> ErrLeftUnparsed]
        ELSE [node |-> r.node.data, err |-> NoErr]

\* JFile.GetString
GetString(root, JSONpath) ==
    LET r == GetNode(root, JSONpath)
    IN  IF r.err # NoErr THEN [str |-> <<>>, err |-> r.err]
        ELSE [str |-> MustString(r.node, <<>>).val, err |-> NoErr]

(***************************************************************************)
(* The operations of a Node that change it, and the lookups with a branch  *)
(* of several steps.  The result of a change is the document afterwards    *)
(* (doc), what the package-level NilNode wraps afterwards (nil) and the    *)
(* data field of the Node the method was called on (data).                 *)
(***************************************************************************)
\* Node.Int (CheckInt in the revision that keeps the short names for the
\* accessors with a default) on a json.Number (the numbers of the model's documents all come
\* from the decoder): json.Number.Int64
CheckInt(v) ==
    IF v.kind = "number" THEN [ok |-> Atoi(v.s).ok, i |-> Atoi(v.s).val]
    ELSE [ok |-> FALSE, i |-> 0]

\* Node.Float64 (CheckFloat64) on a json.Number: json.Number.Float64
CheckFloat64(v) ==
    IF v.kind = "number" THEN [ok |-> Atoi(v.s).ok, f |-> Atoi(v.s).val]
    ELSE [ok |-> FALSE, f |-> 0]

\* Node.MustInt(args...)
MustInt(v, args) ==
    [panic |-> Len(args) > 1,
     val |-> IF CheckInt(v).ok THEN CheckInt(v).i
             ELSE IF Len(args) = 1 THEN args[1] ELSE 0]

\* Node.MustFloat64(args...)
MustFloat64(v, args) ==
    [panic |-> Len(args) > 1,
     val |-> IF CheckFloat64(v).ok THEN CheckFloat64(v).f
             ELSE IF Len(args) = 1 THEN args[1] ELSE 0]

\* make(AnyMap), the data of NewNode()
NewAnyMap == [EmptyMap EXCEPT !.anymap = TRUE]

\* delete(m, k) on a Go map
MapDel(m, k) ==
    IF ~HasKey(m, k) THEN m
    ELSE LET p == KeyPos(m, k)
         IN  [m EXCEPT !.keys = SubSeq(m.keys, 1, p - 1) \o Drop(m.keys, p + 1),
                       !.vals = SubSeq(m.vals, 1, p - 1) \o Drop(m.vals, p + 1)]

\* the package-level NilNode, wrapping nd at the time of the call
GlobalNilNode(nd) == [data |-> nd, loc |-> <<>>, at |-> FALSE]

\* Node.CheckGet(branch...): the steps are strings (keys) and ints (indexes)
RECURSIVE CheckGetBranch(_, _)
CheckGetBranch(j, branch) ==
    IF Len(branch) = 0 THEN [node |-> j, ok |-> TRUE, panic |-> FALSE]
    ELSE LET r == IF branch[1].isKey
                  THEN [node |-> GetKey(j, branch[1].key).node,
                        ok |-> GetKey(j, branch[1].key).ok, panic |-> FALSE]
                  ELSE GetIndex(j, branch[1].idx)
         IN  IF r.panic \/ ~r.ok
             THEN [node |-> NilNode, ok |-> FALSE, panic |-> r.panic]
             ELSE CheckGetBranch(r.node, Tail(branch))

\* Node.Get(branch...): the node found, the package-level NilNode otherwise
GetBranch(j, branch, nd) ==
    LET r == CheckGetBranch(j, branch)
    IN  [node |-> IF r.ok THEN r.node ELSE GlobalNilNode(nd), panic |-> r.panic]

Effect(doc, nd, data) == [doc |-> doc, nil |-> nd, data |-> data]

\* j.data = w.  The Node a lookup wraps around a value is a fresh one, so the
\* assignment outlives the call only on the root node and on NilNode.
AssignData(doc, nd, j, w) ==
    IF ~j.at THEN Effect(doc, w, w)
    ELSE IF Len(j.loc) = 0 THEN Effect(w, nd, w)
    ELSE Effect(doc, nd, w)

\* a store into the map j.data, which the document shares with j; m is the
\* map afterwards
StoreInMap(doc, nd, j, m) ==
    IF ~j.at THEN Effect(doc, m, m)
    ELSE Effect(ReplaceAt(doc, j.loc, m), nd, m)

\* Node.Set on node j
SetNode(doc, nd, j, key, val) ==
    IF ~Map(j.data).ok THEN Effect(doc, nd, j.data)
    ELSE StoreInMap(doc, nd, j, MapPut(j.data, key, val))

\* Node.Del on node j
Del(doc, nd, j, key) ==
    IF ~Map(j.data).ok THEN Effect(doc, nd, j.data)
    ELSE StoreInMap(doc, nd, j, MapDel(j.data, key))

\* the loop and the last store of SetPath on the AnyMap curr
RECURSIVE SetPathIn(_, _, _)
SetPathIn(curr, branch, val) ==
    IF Len(branch) = 1 THEN MapPut(curr, branch[1], val)
    ELSE LET b == branch[1]
             n == IF HasKey(curr, b) /\ Map(MapGet(curr, b)).ok
                  THEN MapGet(curr, b)
                  ELSE NewAnyMap
         IN  MapPut(curr, b, SetPathIn(n, Tail(branch), val))

\* SetPath without its loop: the value goes under the last key of the branch
\* in the map of j itself
SetPathLastKeyOnly(doc, nd, j, branch, val) ==
    IF Len(branch) = 0 THEN AssignData(doc, nd, j, val)
    ELSE IF ~Map(j.data).ok
         THEN AssignData(doc, nd, j, MapPut(NewAnyMap, branch[Len(branch)], val))
         ELSE StoreInMap(doc, nd, j, MapPut(j.data, branch[Len(branch)], val))

\* Node.SetPath on node j
SetPath(doc, nd, j, branch, val) ==
    IF Len(branch) = 0 THEN AssignData(doc, nd, j, val)
    ELSE IF ~Map(j.data).ok
         THEN AssignData(doc, nd, j, SetPathIn(NewAnyMap, branch, val))
         ELSE StoreInMap(doc, nd, j, SetPathIn(j.data, branch, val))

(***************************************************************************)
(* The mutators of the file session.  A result is the error returned, the  *)
(* document held by jf.rootnode afterwards, and the bytes handed to        *)
(* jf.Write when the call gets that far (write).                           *)
(***************************************************************************)
Outcome(err, root, write, data) ==
    [err |-> err, root |-> root, write |-> write, data |-> data]

\* the path before its last "." (empty when it has none), as SetString and
\* AddJSON split it
FirstPart(JSONpath) ==
    LET pos == LastIndex(JSONpath, ".")
    IN  IF pos > 0 THEN SubSeq(JSONpath, 1, pos - 1) ELSE <<>>

\* the path after its last "." (the whole path when it has none)
LastPart(JSONpath) ==
    LET pos == LastIndex(JSONpath, ".")
    IN  IF pos > 0 THEN Drop(JSONpath, pos + 1) ELSE JSONpath

\* SetString without the test that the key exists
SetStringNoCheck(root, JSONpath, value) ==
    LET r == jsonpath(RootNode(root), FirstPart(JSONpath))
        newroot == Set(root, r.node, LastPart(JSONpath), JString(value))
    IN  IF r.err # NoErr /\ r.err # ErrSpecificNode
        THEN Outcome(r.err, root, FALSE, <<>>)
        ELSE Outcome(NoErr, newroot, TRUE, EncodePretty(newroot))

\* JFile.SetString
SetString(root, JSONpath, value) ==
    LET firstpart == FirstPart(JSONpath)
        lastpart == LastPart(JSONpath)
        r == jsonpath(RootNode(root), firstpart)
        newroot == Set(root, r.node, lastpart, JString(value))
    IN  IF r.err # NoErr /\ r.err # ErrSpecificNode
        THEN Outcome(r.err, root, FALSE, <<>>)
        ELSE IF ~CheckGet(r.node, lastpart).ok
        THEN Outcome(ErrCouldNotSet, root, FALSE, <<>>)
        ELSE Outcome(NoErr, newroot, TRUE, EncodePretty(newroot))

\* the two slices the wrong way round
baddSwapped(a, b) == b \o a

\* badd: two byte slices, one after the other
badd(a, b) == a \o b

\* the first position from i on at which old occurs in s, 0 when there is none
RECURSIVE IndexFrom(_, _, _)
IndexFrom(s, old, i) ==
    IF i + Len(old) - 1 > Len(s) THEN 0
    ELSE IF \A j \in 1..Len(old) : s[i + j - 1] = old[j] THEN i
    ELSE IndexFrom(s, old, i + 1)

\* bytes.Index(s, old), 1-based, 0 when old does not occur in s
IndexOf(s, old) == IndexFrom(s, old, 1)

\* the last position at or before i at which old occurs in s, 0 when there is
\* none
RECURSIVE LastIndexFrom(_, _, _)
LastIndexFrom(s, old, i) ==
    IF i < 1 THEN 0
    ELSE IF /\ i + Len(old) - 1 <= Len(s)
            /\ \A j \in 1..Len(old) : s[i + j - 1] = old[j]
         THEN i
         ELSE LastIndexFrom(s, old, i - 1)

\* the last occurrence replaced instead of the first
ReplaceLast(s, old, new) ==
    LET i == LastIndexFrom(s, old, Len(s))
    IN  IF i = 0 THEN s
        ELSE SubSeq(s, 1, i - 1) \o new \o Drop(s, i + Len(old))

\* bytes.Replace(s, old, new, 1) for a non-empty old
Replace(s, old, new) ==
    LET i == IndexOf(s, old)
    IN  IF i = 0 THEN s
        ELSE SubSeq(s, 1, i - 1) \o new \o Drop(s, i + Len(old))

\* AddJSON taking ErrSpecificNode for an error like the others
AddJSONNoSentinel(root, JSONpath, JSONdata) ==
    LET r == jsonpath(RootNode(root), FirstPart(JSONpath))
        listJSON == Encode(r.node.data)
        newFullJSON == Replace(Encode(root), listJSON,
                               badd(SubSeq(listJSON, 1, Len(listJSON) - 1),
                                    <<",">> \o JSONdata \o <<"]">>))
        js == New(newFullJSON)
    IN  IF r.err # NoErr
        THEN Outcome(r.err, root, FALSE, <<>>)
        ELSE IF CheckGet(r.node, LastPart(JSONpath)).ok
        THEN Outcome(ErrSingleKey, root, FALSE, <<>>)
        ELSE IF ~js.ok
        THEN Outcome(ErrDecode, root, FALSE, <<>>)
        ELSE Outcome(NoErr, js.val, TRUE, EncodePretty(js.val))

\* JFile.AddJSON
\* an AddJSON that puts no comma in front of the first element of an array
AddJSONFirstElement(root, JSONpath, JSONdata) ==
    LET firstpart == FirstPart(JSONpath)
        lastpart == LastPart(JSONpath)
        r == jsonpath(RootNode(root), firstpart)
        listJSON == Encode(r.node.data)
        fullJSON == Encode(root)
        sep == IF listJSON = <<"[", "]">> THEN <<>> ELSE <<",">>
        newFullJSON == Replace(fullJSON, listJSON,
                               badd(SubSeq(listJSON, 1, Len(listJSON) - 1),
                                    sep \o JSONdata \o <<"]">>))
        js == New(newFullJSON)
    IN  IF r.err # NoErr /\ r.err # ErrSpecificNode
        THEN Outcome(r.err, root, FALSE, <<>>)
        ELSE IF CheckGet(r.node, lastpart).ok
        THEN Outcome(ErrSingleKey, root, FALSE, <<>>)
        ELSE IF ~js.ok
        THEN Outcome(ErrDecode, root, FALSE, <<>>)
        ELSE Outcome(NoErr, js.val, TRUE, EncodePretty(js.val))

\* an AddJSON that writes the compact encoding to the file
AddJSONWritesCompact(root, JSONpath, JSONdata) ==
    LET firstpart == FirstPart(JSONpath)
        lastpart == LastPart(JSONpath)
        r == jsonpath(RootNode(root), firstpart)
        listJSON == Encode(r.node.data)
        fullJSON == Encode(root)
        newFullJSON == Replace(fullJSON, listJSON,
                               badd(SubSeq(listJSON, 1, Len(listJSON) - 1),
                                    <<",">> \o JSONdata \o <<"]">>))
        js == New(newFullJSON)
    IN  IF r.err # NoErr /\ r.err # ErrSpecificNode
        THEN Outcome(r.err, root, FALSE, <<>>)
        ELSE IF CheckGet(r.node, lastpart).ok
        THEN Outcome(ErrSingleKey, root, FALSE, <<>>)
        ELSE IF ~js.ok
        THEN Outcome(ErrDecode, root, FALSE, <<>>)
        ELSE Outcome(NoErr, js.val, TRUE, Encode(js.val))

AddJSON(root, JSONpath, JSONdata) ==
    LET firstpart == FirstPart(JSONpath)
        lastpart == LastPart(JSONpath)
        r == jsonpath(RootNode(root), firstpart)
        listJSON == Encode(r.node.data)
        fullJSON == Encode(root)
        newFullJSON == Replace(fullJSON, listJSON,
                               badd(SubSeq(listJSON, 1, Len(listJSON) - 1),
                                    <<",">> \o JSONdata \o <<"]">>))
        js == New(newFullJSON)
    IN  IF r.err # NoErr /\ r.err # ErrSpecificNode
        THEN Outcome(r.err, root, FALSE, <<>>)
        ELSE IF CheckGet(r.node, lastpart).ok
        THEN Outcome(ErrSingleKey, root, FALSE, <<>>)
        ELSE IF ~js.ok
        THEN Outcome(ErrDecode, root, FALSE, <<>>)
        ELSE Outcome(NoErr, js.val, TRUE, EncodePretty(js.val))

\* what ioutil.WriteFile can do
IOOutcomes == {"ok", "open fails", "write fails"}

\* ioutil.WriteFile(filename, data, 0666): the content of the file afterwards.
\* A failed open leaves the file alone; a failed write comes after the
\* truncation of the open.
WriteFile(old, data, io) ==
    CASE io = "ok" -> data
      [] io = "open fails" -> old
      [] io = "write fails" -> <<>>

(***************************************************************************)
(* The inputs of the model: the files a session is opened on, the paths,   *)
(* the values and the fragments the calls are made with.                   *)
(***************************************************************************)
\* [{"author":"p"},{"author":"q"}]: a root array of objects, as the README's books.json
FileShelf == <<"[", "{", "\"", "a", "u", "t", "h", "o", "r", "\"", ":", "\"",
    "p", "\"", "}", ",", "{", "\"", "a", "u", "t", "h", "o", "r", "\"", ":",
    "\"", "q", "\"", "}", "]">>

\* [{"x":"7", "y":"15"}]: the document of TestAddFile
FileTest == <<"[", "{", "\"", "x", "\"", ":", "\"", "7", "\"", ",", " ",
    "\"", "y", "\"", ":", "\"", "1", "5", "\"", "}", "]">>

\* {"list":[{"k":1}]}: an object with a non-empty array of objects
FileList == <<"{", "\"", "l", "i", "s", "t", "\"", ":", "[", "{", "\"", "k",
    "\"", ":", "1", "}", "]", "}">>

\* {"arr":[10,20,30]}: an object with an array of numbers
FileArr == <<"{", "\"", "a", "r", "r", "\"", ":", "[", "1", "0", ",", "2",
    "0", ",", "3", "0", "]", "}">>

\* {"books":[{"author":"p"},{"author":"q"}]}: an object with an array of objects
FileBooks == <<"{", "\"", "b", "o", "o", "k", "s", "\"", ":", "[", "{", "\"",
    "a", "u", "t", "h", "o", "r", "\"", ":", "\"", "p", "\"", "}", ",", "{",
    "\"", "a", "u", "t", "h", "o", "r", "\"", ":", "\"", "q", "\"", "}", "]",
    "}">>

\* {"a":{"b":"v"}}: nested objects
FileNested == <<"{", "\"", "a", "\"", ":", "{", "\"", "b", "\"", ":", "\"",
    "v", "\"", "}", "}">>

\* [10,20]: a root array of numbers
FileNums == <<"[", "1", "0", ",", "2", "0", "]">>

\* the empty path
PathEmpty == <<>>

\* x
PathX == <<"x">>

\* x[0]
PathX0 == <<"x", "[", "0", "]">>

\* x[1].author
PathX1Author == <<"x", "[", "1", "]", ".", "a", "u", "t", "h", "o", "r">>

\* x[1].title
PathX1Title == <<"x", "[", "1", "]", ".", "t", "i", "t", "l", "e">>

\* x[-1]
PathXNeg == <<"x", "[", "-", "1", "]">>

\* x[2]
PathX2 == <<"x", "[", "2", "]">>

\* x[z]
PathXBad == <<"x", "[", "z", "]">>

\* list
PathList == <<"l", "i", "s", "t">>

\* list[0].k
PathList0K == <<"l", "i", "s", "t", "[", "0", "]", ".", "k">>

\* list[0].z
PathList0Z == <<"l", "i", "s", "t", "[", "0", "]", ".", "z">>

\* x.books[1].author
PathXBooks1Author == <<"x", ".", "b", "o", "o", "k", "s", "[", "1", "]", ".",
    "a", "u", "t", "h", "o", "r">>

\* x.arr[1]
PathXArr1 == <<"x", ".", "a", "r", "r", "[", "1", "]">>

\* arr[5]
PathArr5 == <<"a", "r", "r", "[", "5", "]">>

\* arr[-1]
PathArrNeg == <<"a", "r", "r", "[", "-", "1", "]">>

\* a.b
PathAB == <<"a", ".", "b">>

\* x.a.b
PathXAB == <<"x", ".", "a", ".", "b">>

\* a
PathA == <<"a">>

\* x[0].k
PathX0K == <<"x", "[", "0", "]", ".", "k">>

\* {"k":2}
FragK2 == <<"{", "\"", "k", "\"", ":", "2", "}">>

\* {"x":"2", "y":"3"}
FragTest == <<"{", "\"", "x", "\"", ":", "\"", "2", "\"", ",", " ", "\"",
    "y", "\"", ":", "\"", "3", "\"", "}">>

\* ]
FragBad == <<"]">>

\* "a":2},[1 : not a JSON value; it closes an object and opens an array
FragSplice == <<"\"", "a", "\"", ":", "2", "}", ",", "[", "1">>

\* [[7,8]]: a root array whose element is an array
FileGrid == <<"[", "[", "7", ",", "8", "]", "]">>

\* x[0].x
PathX0X == <<"x", "[", "0", "]", ".", "x">>

\* x[0].x[1]
PathX0X1 == <<"x", "[", "0", "]", ".", "x", "[", "1", "]">>

\* new
ValueNew == <<"n", "e", "w">>

Files == {FileShelf, FileTest, FileList, FileArr, FileBooks, FileNested, FileNums}

\* the files the lookups are made on: every file as given, and two of them as
\* a session writes them
GetFiles ==
    Files \cup {FileGrid} \cup {EncodePretty(New(f).val) : f \in {FileShelf, FileList}}

\* the files the mutators are called on
InitFiles == {FileShelf, FileTest, FileList, FileNested, EncodePretty(New(FileList).val)}

Paths == {PathEmpty, PathX, PathX0, PathX1Author, PathX1Title, PathXNeg, PathX2,
          PathXBad, PathList, PathList0K, PathList0Z, PathXBooks1Author,
          PathXArr1, PathArr5, PathArrNeg, PathAB, PathXAB, PathA, PathX0K,
          PathX0X, PathX0X1}

\* the paths the mutators are called with
MutPaths == {PathEmpty, PathX, PathX1Author, PathX1Title, PathList, PathList0K,
             PathAB, PathA}

Values == {ValueNew}

Fragments == {FragK2, FragTest, FragBad, FragSplice}

(***************************************************************************)
(* One session used by one goroutine.                                      *)
(*   file   the bytes of the file jf.filename                              *)
(*   root   the document of jf.rootnode                                    *)
(*   alive  the process has not panicked                                   *)
(*   nops   the number of SetString and AddJSON calls made                 *)
(*   last   the last call: its arguments, what it returned, and the        *)
(*          document and the file before it                                *)
(***************************************************************************)
VARIABLES file, root, alive, nops, last

svars == <<file, root, alive, nops, last>>

(***************************************************************************)
(* The goroutines that call jf.Write on the session.                       *)
(*   rw     the holder of jf.rw, 0 when it is free                         *)
(*   wpc    where each goroutine is in Write                               *)
(*   wdata  the bytes each goroutine passed to Write                       *)
(*   woff   the offset of each goroutine's file descriptor                 *)
(***************************************************************************)
VARIABLES rw, wpc, wdata, woff

wvars == <<rw, wpc, wdata, woff>>

(***************************************************************************)
(* The package.                                                            *)
(*   nilData  what the package-level NilNode wraps                         *)
(***************************************************************************)
VARIABLES nilData

\* calls[w]: the call goroutine w is making of SetString, AddJSON or GetString,
\* with the locals of the call
VARIABLES calls

vars == <<file, root, alive, nops, last, rw, wpc, wdata, woff, nilData, calls>>

Writers == 1..MaxWriters

\* no call yet
NoCall ==
    [op |-> "none", path |-> <<>>, arg |-> <<>>, err |-> NoErr,
     list |-> <<>>, js |-> Nil, root0 |-> Nil, overlapped |-> FALSE]

Call(op, path, arg, err, node, str, io) ==
    [op |-> op, path |-> path, arg |-> arg, err |-> err, node |-> node,
     str |-> str, io |-> io, root0 |-> root, file0 |-> file]

\* NewFile(filename)
NewFile(f) ==
    /\ New(f).ok
    /\ file = f
    /\ root = New(f).val

\* a session just opened on one of the files of fs, no call made yet
InitOn(fs) ==
    /\ \E f \in fs : NewFile(f)
    /\ alive = TRUE
    /\ nops = 0
    /\ last = [op |-> "none", path |-> <<>>, arg |-> <<>>, err |-> NoErr,
               node |-> Nil, str |-> <<>>, io |-> "none",
               root0 |-> root, file0 |-> file]
    /\ rw = 0
    /\ wpc = [w \in Writers |-> "idle"]
    /\ wdata = [w \in Writers |-> <<>>]
    /\ woff = [w \in Writers |-> 0]
    /\ nilData = Nil
    /\ calls = [w \in Writers |-> NoCall]

Init == InitOn(InitFiles)

InitGet == InitOn(GetFiles)

\* a call that puts the old root back when its write fails
MutatedRollsBack(op, path, arg, o, io) ==
    /\ root' = IF o.write /\ io # "ok" THEN root ELSE o.root
    /\ file' = IF o.write THEN WriteFile(file, o.data, io) ELSE file
    /\ alive' = (o.err # Panic)
    /\ nops' = nops + 1
    /\ last' = Call(op, path, arg,
                    IF o.write /\ io # "ok" THEN ErrIO ELSE o.err,
                    Nil, <<>>, io)
    /\ UNCHANGED <<wvars, nilData, calls>>

\* a call of a mutator that returned o, jf.Write having gone as io says
Mutated(op, path, arg, o, io) ==
    /\ root' = o.root
    /\ file' = IF o.write THEN WriteFile(file, o.data, io) ELSE file
    /\ alive' = (o.err # Panic)
    /\ nops' = nops + 1
    /\ last' = Call(op, path, arg,
                    IF o.write /\ io # "ok" THEN ErrIO ELSE o.err,
                    Nil, <<>>, io)
    /\ UNCHANGED <<wvars, nilData, calls>>

\* what the write of a call that returned o can do
IOFor(o) == IF o.write THEN IOOutcomes ELSE {"none"}

DoSetString(JSONpath, value) ==
    /\ alive /\ nops < MaxOps
    /\ LET o == SetString(root, JSONpath, value)
       IN  \E io \in IOFor(o) : Mutated("SetString", JSONpath, value, o, io)

DoAddJSON(JSONpath, JSONdata) ==
    /\ alive /\ nops < MaxOps
    /\ LET o == AddJSON(root, JSONpath, JSONdata)
       IN  \E io \in IOFor(o) : Mutated("AddJSON", JSONpath, JSONdata, o, io)

DoGetNode(JSONpath) ==
    /\ alive
    /\ LET r == GetNode(root, JSONpath)
       IN  /\ last' = Call("GetNode", JSONpath, <<>>, r.err, r.node, <<>>, "none")
           /\ alive' = (r.err # Panic)
    /\ UNCHANGED <<file, root, nops>>
    /\ UNCHANGED <<wvars, nilData, calls>>

DoGetString(JSONpath) ==
    /\ alive
    /\ LET r == GetString(root, JSONpath)
       IN  /\ last' = Call("GetString", JSONpath, <<>>, r.err, Nil, r.str, "none")
           /\ alive' = (r.err # Panic)
    /\ UNCHANGED <<file, root, nops>>
    /\ UNCHANGED <<wvars, nilData, calls>>

\* the mutators of one session, called one after the other
Next ==
    \/ \E p \in MutPaths, v \in Values : DoSetString(p, v)
    \/ \E p \in MutPaths, d \in Fragments : DoAddJSON(p, d)

Spec == Init /\ [][Next]_vars

\* the lookups of one session
NextGet ==
    \/ \E p \in Paths : DoGetNode(p)
    \/ \E p \in Paths : DoGetString(p)

SpecGet == InitGet /\ [][NextGet]_vars

(***************************************************************************)
(* The mutators of one session on paths that go through an index of the    *)
(* root array, and on paths that the resolver rejects.                     *)
(***************************************************************************)
\* [[1],[1]]: two arrays with the same encoding
FileTwins == <<"[", "[", "1", "]", ",", "[", "1", "]", "]">>

\* [[],[]]: two empty arrays
FileEmptyTwins == <<"[", "[", "]", ",", "[", "]", "]">>

\* x[1].z
PathX1Z == <<"x", "[", "1", "]", ".", "z">>

\* x[z].k
PathXBadK == <<"x", "[", "z", "]", ".", "k">>

\* a.b.c
PathABC == <<"a", ".", "b", ".", "c">>

\* ["[]",[]]: the text of an empty array inside a string, then an empty array
FileQuoted == <<"[", "\"", "[", "]", "\"", ",", "[", "]", "]">>

\* []
FileEmpty == <<"[", "]">>

\* 7
FragSeven == <<"7">>

SpliceFiles ==
    {FileTwins, FileEmptyTwins, FileShelf, FileNested, FileQuoted, FileEmpty}

SplicePaths == {PathEmpty, PathX, PathX1Z, PathXBadK, PathABC, PathList0K}

SpliceFragments == {FragK2, FragBad, FragSeven}

InitSplice == InitOn(SpliceFiles)

NextSplice ==
    \/ \E p \in SplicePaths, v \in Values : DoSetString(p, v)
    \/ \E p \in SplicePaths, d \in SpliceFragments : DoAddJSON(p, d)

SpecSplice == InitSplice /\ [][NextSplice]_vars

(***************************************************************************)
(* A document used through its nodes by one goroutine: lookups with Get,   *)
(* and Set, Del and SetPath on the root node and on the nodes that Get     *)
(* returns.  root is the document of the root node js, nops the number of  *)
(* changing calls made, last the last call.                                *)
(***************************************************************************)
\* {"this":{"a":"aa","b":"bb","c":"cc"}}: the document of TestPathWillAugmentExisting
FileThis == <<"{", "\"", "t", "h", "i", "s", "\"", ":", "{", "\"", "a",
    "\"", ":", "\"", "a", "a", "\"", ",", "\"", "b", "\"",
    ":", "\"", "b", "b", "\"", ",", "\"", "c", "\"", ":",
    "\"", "c", "c", "\"", "}", "}">>

\* {"a":2, "b":3}: the document of the README's example
FileAB == <<"{", "\"", "a", "\"", ":", "2", ",", " ", "\"", "b", "\"", ":",
    "3", "}">>

\* the keys and the value of the tests of Set and SetPath
KeyThis == <<"t", "h", "i", "s">>

KeyA == <<"a">>

KeyD == <<"d">>

KeyFoo == <<"f", "o", "o">>

\* a key that no document has
KeyNope == <<"n", "o", "p", "e">>

ValueDD == <<"d", "d">>

\* the documents: three read by New, and the empty one of NewNode()
NodeDocs == {New(FileThis).val, New(FileAB).val, New(FileNums).val, NewAnyMap}

\* the branch of keys as Get takes it
KeySteps(branch) == [i \in 1..Len(branch) |-> KeyStep(branch[i])]

\* the nodes the changing calls are made on: js, js.Get("this"), js.Get("nope")
Targets == {<<>>, KeySteps(<<KeyThis>>), KeySteps(<<KeyNope>>)}

SetKeys == {KeyA, KeyD, KeyThis}

DelKeys == {KeyA, KeyThis}

SetBranches == {<<>>, <<KeyThis, KeyD>>, <<KeyThis, KeyA, KeyFoo>>}

NodeValues == {JString(ValueDD)}

GetBranches ==
    {KeySteps(b) : b \in {<<KeyA>>, <<KeyD>>, <<KeyThis>>, <<KeyNope>>,
                          <<KeyThis, KeyA>>, <<KeyThis, KeyD>>,
                          <<KeyThis, KeyNope>>, <<KeyThis, KeyA, KeyFoo>>}}
    \cup {<<IdxStep(0)>>, <<IdxStep(5)>>, <<IdxStep(0 - 1)>>,
          <<KeyStep(KeyA), IdxStep(0)>>, <<IdxStep(0), KeyStep(KeyA)>>}

NodeCall(op, target, key, branch, val, found, node, panic, before, after) ==
    [op |-> op, target |-> target, key |-> key, branch |-> branch, val |-> val,
     found |-> found, node |-> node, panic |-> panic,
     before |-> before, after |-> after, root0 |-> root, nil0 |-> nilData]

\* js is New(body) or NewNode(), no call made yet
InitNode ==
    /\ root \in NodeDocs
    /\ file = <<>>
    /\ alive = TRUE
    /\ nops = 0
    /\ nilData = Nil
    /\ last = [op |-> "none", target |-> <<>>, key |-> <<>>, branch |-> <<>>,
               val |-> Nil, found |-> FALSE, node |-> Nil, panic |-> FALSE,
               before |-> Nil, after |-> Nil, root0 |-> root, nil0 |-> Nil]
    /\ rw = 0
    /\ wpc = [w \in Writers |-> "idle"]
    /\ wdata = [w \in Writers |-> <<>>]
    /\ woff = [w \in Writers |-> 0]
    /\ calls = [w \in Writers |-> NoCall]

\* js.Get(branch...) and js.CheckGet(branch...)
DoGet(branch) ==
    /\ alive
    /\ LET r == CheckGetBranch(RootNode(root), branch)
           g == GetBranch(RootNode(root), branch, nilData)
       IN  /\ last' = NodeCall("Get", <<>>, <<>>, branch, Nil, r.ok, g.node.data,
                               g.panic, root, root)
           /\ alive' = ~g.panic
    /\ UNCHANGED <<file, root, nops, nilData, wvars, calls>>

\* a changing call on the node j == js.Get(target...) that had the effect e
NodeMutated(op, target, key, branch, val, j, e) ==
    /\ root' = e.doc
    /\ nilData' = e.nil
    /\ nops' = nops + 1
    /\ last' = NodeCall(op, target, key, branch, val, FALSE, Nil, FALSE,
                        j.data, e.data)
    /\ UNCHANGED <<file, alive, wvars, calls>>

\* js.Get(target...).Set(key, val)
DoSet(target, key, val) ==
    /\ alive /\ nops < MaxOps
    /\ LET j == GetBranch(RootNode(root), target, nilData).node
       IN  NodeMutated("Set", target, key, <<>>, val, j,
                       SetNode(root, nilData, j, key, val))

\* js.Get(target...).Del(key)
DoDel(target, key) ==
    /\ alive /\ nops < MaxOps
    /\ LET j == GetBranch(RootNode(root), target, nilData).node
       IN  NodeMutated("Del", target, key, <<>>, Nil, j,
                       Del(root, nilData, j, key))

\* js.Get(target...).SetPath(branch, val)
DoSetPath(target, branch, val) ==
    /\ alive /\ nops < MaxOps
    /\ LET j == GetBranch(RootNode(root), target, nilData).node
       IN  NodeMutated("SetPath", target, <<>>, branch, val, j,
                       SetPath(root, nilData, j, branch, val))

NextNode ==
    \/ \E b \in GetBranches : DoGet(b)
    \/ \E t \in Targets, k \in SetKeys, v \in NodeValues : DoSet(t, k, v)
    \/ \E t \in Targets, k \in DelKeys : DoDel(t, k)
    \/ \E t \in Targets, b \in SetBranches, v \in NodeValues : DoSetPath(t, b, v)

SpecNode == InitNode /\ [][NextNode]_vars

(***************************************************************************)
(* JFile.Write called by several goroutines on one session.  WriteFile     *)
(* opens the file with O_TRUNC and writes the bytes at the offset of its   *)
(* own descriptor, here one byte at a time.                                *)
(***************************************************************************)
\* [1]
DataOne == <<"[", "1", "]">>

\* {}
DataEmpty == <<"{", "}">>

\* 7
DataSeven == <<"7">>

WriteData == {DataOne, DataEmpty, DataSeven}

\* a byte of a hole in the file
NUL == "NUL"

RECURSIVE Zeros(_)
Zeros(n) == IF n <= 0 THEN <<>> ELSE <<NUL>> \o Zeros(n - 1)

\* the file after a write of the byte c at offset off
WriteAt(f, off, c) ==
    IF off < Len(f) THEN [f EXCEPT ![off + 1] = c]
    ELSE f \o Zeros(off - Len(f)) \o <<c>>

\* goroutine w is inside ioutil.WriteFile
InWriteFile(w) == wpc[w] \in {"open", "write"}

\* goroutine w calls jf.Write(data)
WriteCall(w, data) ==
    /\ wpc[w] = "idle"
    /\ wpc' = [wpc EXCEPT ![w] = "lock"]
    /\ wdata' = [wdata EXCEPT ![w] = data]
    /\ UNCHANGED <<rw, woff, svars, nilData, calls>>

\* a lock that does not wait for its holder
LockNoWait(w) ==
    /\ wpc[w] = "lock"
    /\ rw' = w
    /\ wpc' = [wpc EXCEPT ![w] = "open"]
    /\ UNCHANGED <<wdata, woff, svars, nilData, calls>>

\* jf.rw.Lock() returns in w once no goroutine holds the lock
Lock(w) ==
    /\ wpc[w] = "lock"
    /\ rw = 0
    /\ rw' = w
    /\ wpc' = [wpc EXCEPT ![w] = "open"]
    /\ UNCHANGED <<wdata, woff, svars, nilData, calls>>

\* os.OpenFile(filename, O_WRONLY|O_CREATE|O_TRUNC, perm)
OpenTrunc(w) ==
    /\ wpc[w] = "open"
    /\ file' = <<>>
    /\ woff' = [woff EXCEPT ![w] = 0]
    /\ wpc' = [wpc EXCEPT ![w] = "write"]
    /\ UNCHANGED <<root, alive, nops, last, rw, wdata, nilData, calls>>

\* f.Write(data), the next byte of it
WriteByte(w) ==
    /\ wpc[w] = "write"
    /\ woff[w] < Len(wdata[w])
    /\ file' = WriteAt(file, woff[w], wdata[w][woff[w] + 1])
    /\ woff' = [woff EXCEPT ![w] = woff[w] + 1]
    /\ UNCHANGED <<root, alive, nops, last, rw, wpc, wdata, nilData, calls>>

\* WriteFile returns and the deferred jf.rw.Unlock() runs
Unlock(w) ==
    /\ wpc[w] = "write"
    /\ woff[w] = Len(wdata[w])
    /\ rw' = 0
    /\ wpc' = [wpc EXCEPT ![w] = "done"]
    /\ UNCHANGED <<wdata, woff, svars, nilData, calls>>

NextWrite ==
    \/ \E w \in Writers, d \in WriteData : WriteCall(w, d)
    \/ \E w \in Writers : Lock(w)
    \/ \E w \in Writers : OpenTrunc(w)
    \/ \E w \in Writers : WriteByte(w)
    \/ \E w \in Writers : Unlock(w)

SpecWrite == Init /\ [][NextWrite]_vars

(***************************************************************************)
(* SetString and AddJSON called by several goroutines on one session.  The *)
(* calls share jf.rootnode and the tree under it, which nothing guards,    *)
(* and jf.rw, which Write takes around WriteFile.  A step of a call is the *)
(* code between two of its reads or writes of jf.rootnode.                 *)
(***************************************************************************)
\* b
PathB == <<"b">>

\* the calls the goroutines make
RaceCalls ==
    {[op |-> "SetString", path |-> PathA, arg |-> ValueNew],
     [op |-> "SetString", path |-> PathB, arg |-> ValueNew],
     [op |-> "AddJSON", path |-> PathX, arg |-> FragSeven],
     [op |-> "AddJSON", path |-> PathX, arg |-> FragK2]}

RaceFiles == {FileAB, FileNums}

InitRace == InitOn(RaceFiles)

\* goroutine w calls jf.SetString(path, arg) or jf.AddJSON(path, arg)
Begin(w, c) ==
    /\ wpc[w] = "idle"
    /\ wpc' = [wpc EXCEPT ![w] = "resolve"]
    /\ calls' = [calls EXCEPT ![w] =
                     [NoCall EXCEPT !.op = c.op, !.path = c.path, !.arg = c.arg]]
    /\ UNCHANGED <<rw, wdata, woff, svars, nilData>>

\* the call of w returns err without a write
Returns(w, err) ==
    /\ wpc' = [wpc EXCEPT ![w] = "done"]
    /\ calls' = [calls EXCEPT ![w].err = err, ![w].root0 = root]
    /\ UNCHANGED root

\* jsonpath(jf.rootnode, firstpart) and node.CheckGet(lastpart) in w; then
\* SetString does node.Set(lastpart, value) on the shared tree and AddJSON
\* encodes the node
Resolve(w) ==
    /\ wpc[w] = "resolve"
    /\ LET c == calls[w]
           r == jsonpath(RootNode(root), FirstPart(c.path))
           hasNode == CheckGet(r.node, LastPart(c.path)).ok
       IN  IF r.err # NoErr /\ r.err # ErrSpecificNode
           THEN Returns(w, r.err)
           ELSE IF c.op = "SetString"
           THEN IF ~hasNode
                THEN Returns(w, ErrCouldNotSet)
                ELSE /\ root' = Set(root, r.node, LastPart(c.path), JString(c.arg))
                     /\ wpc' = [wpc EXCEPT ![w] = "update"]
                     /\ calls' = [calls EXCEPT ![w].root0 = root]
           ELSE IF hasNode
                THEN Returns(w, ErrSingleKey)
                ELSE /\ wpc' = [wpc EXCEPT ![w] = "splice"]
                     /\ calls' = [calls EXCEPT ![w].root0 = root,
                                               ![w].list = Encode(r.node.data)]
                     /\ UNCHANGED root
    /\ UNCHANGED <<file, alive, nops, last, rw, wdata, woff, nilData>>

\* AddJSON in w: jf.rootnode.Encode(), bytes.Replace and New on the result
Splice(w) ==
    /\ wpc[w] = "splice"
    /\ LET c == calls[w]
           fullJSON == Encode(root)
           newFullJSON == Replace(fullJSON, c.list,
                                  badd(SubSeq(c.list, 1, Len(c.list) - 1),
                                       <<",">> \o c.arg \o <<"]">>))
           js == New(newFullJSON)
       IN  IF ~js.ok
           THEN /\ wpc' = [wpc EXCEPT ![w] = "done"]
                /\ calls' = [calls EXCEPT ![w].err = ErrDecode]
           ELSE /\ wpc' = [wpc EXCEPT ![w] = "update"]
                /\ calls' = [calls EXCEPT ![w].js = js.val]
    /\ UNCHANGED <<rw, wdata, woff, svars, nilData>>

\* AddJSON in w: jf.rootnode = js and js.EncodePretty(); SetString in w:
\* jf.rootnode.EncodePretty(); then the call of jf.Write
Update(w) ==
    /\ wpc[w] = "update"
    /\ LET c == calls[w]
       IN  IF c.op = "AddJSON"
           THEN /\ root' = c.js
                /\ wdata' = [wdata EXCEPT ![w] = EncodePretty(c.js)]
           ELSE /\ wdata' = [wdata EXCEPT ![w] = EncodePretty(root)]
                /\ UNCHANGED root
    /\ wpc' = [wpc EXCEPT ![w] = "lock"]
    /\ UNCHANGED <<file, alive, nops, last, rw, woff, nilData, calls>>

NextRace ==
    \/ \E w \in Writers, c \in RaceCalls : Begin(w, c)
    \/ \E w \in Writers : Resolve(w)
    \/ \E w \in Writers : Splice(w)
    \/ \E w \in Writers : Update(w)
    \/ \E w \in Writers : Lock(w)
    \/ \E w \in Writers : OpenTrunc(w)
    \/ \E w \in Writers : WriteByte(w)
    \/ \E w \in Writers : Unlock(w)

SpecRace == InitRace /\ [][NextRace]_vars

(***************************************************************************)
(* The package-level SetString, AddJSON and GetString called by several    *)
(* goroutines on one file name.  Each call opens a session of its own with *)
(* NewFile: calls[w].js is the root of the session of w and its lock is    *)
(* one no other goroutine takes, so Write never waits.  WriteFile opens    *)
(* the file with O_TRUNC and writes the bytes with one write at offset 0.  *)
(***************************************************************************)
PkgCalls ==
    {[op |-> "AddJSON", path |-> PathX, arg |-> FragSeven],
     [op |-> "AddJSON", path |-> PathX, arg |-> FragK2],
     [op |-> "SetString", path |-> PathA, arg |-> ValueNew],
     [op |-> "GetString", path |-> PathX0, arg |-> <<>>]}

PkgFiles == {FileNums, FileAB}

InitPkg == InitOn(PkgFiles)

\* goroutine w calls SetString, AddJSON or GetString of the package
PkgCall(w, c) ==
    /\ wpc[w] = "idle"
    /\ wpc' = [wpc EXCEPT ![w] = "newfile"]
    /\ calls' = [calls EXCEPT ![w] =
                     [NoCall EXCEPT !.op = c.op, !.path = c.path, !.arg = c.arg]]
    /\ UNCHANGED <<rw, wdata, woff, svars, nilData>>

\* jf, err := NewFile(filename) in w: the file is read and parsed
PkgNewFile(w) ==
    /\ wpc[w] = "newfile"
    /\ LET js == New(file)
       IN  IF ~js.ok
           THEN /\ wpc' = [wpc EXCEPT ![w] = "done"]
                /\ calls' = [calls EXCEPT ![w].err = ErrDecode]
           ELSE /\ wpc' = [wpc EXCEPT ![w] = "method"]
                /\ calls' = [calls EXCEPT ![w].js = js.val, ![w].root0 = js.val]
    /\ UNCHANGED <<rw, wdata, woff, svars, nilData>>

\* jf.SetString, jf.AddJSON or jf.GetString in w, up to the WriteFile of a
\* mutator that got that far
PkgMethod(w) ==
    /\ wpc[w] = "method"
    /\ LET c == calls[w]
           o == IF c.op = "SetString" THEN SetString(c.js, c.path, c.arg)
                ELSE AddJSON(c.js, c.path, c.arg)
       IN  IF c.op = "GetString"
           THEN /\ wpc' = [wpc EXCEPT ![w] = "done"]
                /\ calls' = [calls EXCEPT ![w].err = GetString(c.js, c.path).err]
                /\ UNCHANGED wdata
           ELSE /\ wpc' = [wpc EXCEPT ![w] = IF o.write THEN "open" ELSE "done"]
                /\ calls' = [calls EXCEPT ![w].js = o.root, ![w].err = o.err]
                /\ wdata' = [wdata EXCEPT ![w] = o.data]
    /\ UNCHANGED <<rw, woff, svars, nilData>>

\* goroutine v has truncated the file and not written yet
Truncated(v) == wpc[v] = "write" /\ woff[v] < Len(wdata[v])

\* an open that leaves the bytes of the file in place
PkgOpenNoTrunc(w) ==
    /\ wpc[w] = "open"
    /\ woff' = [woff EXCEPT ![w] = 0]
    /\ wpc' = [wpc EXCEPT ![w] = "write"]
    /\ calls' = [v \in Writers |->
                     IF \E u \in Writers \ {w} : Truncated(u) /\ (v = u \/ v = w)
                     THEN [calls[v] EXCEPT !.overlapped = TRUE]
                     ELSE calls[v]]
    /\ UNCHANGED <<file, root, alive, nops, last, rw, wdata, nilData>>

\* os.OpenFile(filename, O_WRONLY|O_CREATE|O_TRUNC, perm) in w; overlapped
\* records that it came between the open and the write of another goroutine
PkgOpen(w) ==
    /\ wpc[w] = "open"
    /\ file' = <<>>
    /\ woff' = [woff EXCEPT ![w] = 0]
    /\ wpc' = [wpc EXCEPT ![w] = "write"]
    /\ calls' = [v \in Writers |->
                     IF \E u \in Writers \ {w} : Truncated(u) /\ (v = u \/ v = w)
                     THEN [calls[v] EXCEPT !.overlapped = TRUE]
                     ELSE calls[v]]
    /\ UNCHANGED <<root, alive, nops, last, rw, wdata, nilData>>

\* f.Write(data) in w, at offset 0 of its descriptor
PkgWrite(w) ==
    /\ Truncated(w)
    /\ file' = wdata[w] \o SubSeq(file, Len(wdata[w]) + 1, Len(file))
    /\ woff' = [woff EXCEPT ![w] = Len(wdata[w])]
    /\ UNCHANGED <<root, alive, nops, last, rw, wpc, wdata, nilData, calls>>

\* WriteFile, Write and the call of w return
PkgReturn(w) ==
    /\ wpc[w] = "write"
    /\ woff[w] = Len(wdata[w])
    /\ wpc' = [wpc EXCEPT ![w] = "done"]
    /\ UNCHANGED <<rw, wdata, woff, svars, nilData, calls>>

NextPkg ==
    \/ \E w \in Writers, c \in PkgCalls : PkgCall(w, c)
    \/ \E w \in Writers : PkgNewFile(w)
    \/ \E w \in Writers : PkgMethod(w)
    \/ \E w \in Writers : PkgOpen(w)
    \/ \E w \in Writers : PkgWrite(w)
    \/ \E w \in Writers : PkgReturn(w)

SpecPkg == InitPkg /\ [][NextPkg]_vars

(***************************************************************************)
(* C1.  The file writes of concurrent Write calls on one session exclude   *)
(* each other: two goroutines are never inside WriteFile at once, and once *)
(* every call has returned the file holds exactly the bytes passed to one  *)
(* of the calls.                                                           *)
(***************************************************************************)
AllWritesReturned ==
    /\ \A w \in Writers : wpc[w] \in {"idle", "done"}
    /\ \E w \in Writers : wpc[w] = "done"

C1_WritesExclusive ==
    /\ \A v, w \in Writers : v # w => ~(InWriteFile(v) /\ InWriteFile(w))
    /\ AllWritesReturned => \E w \in Writers : wpc[w] = "done" /\ file = wdata[w]

\* every goroutine has written, two of them different bytes
C1_Witness ==
    /\ \A w \in Writers : wpc[w] = "done"
    /\ \E v, w \in Writers : wdata[v] # wdata[w]

(***************************************************************************)
(* What the claims about the session speak of: JSON objects, arrays and    *)
(* their members, whatever Go type holds them.                             *)
(***************************************************************************)
IsObject(v) == v.kind = "map"

IsArray(v) == v.kind = "array"

HasField(v, k) == IsObject(v) /\ HasKey(v, k)

\* the keys that occur anywhere in v
RECURSIVE KeysOf(_)
KeysOf(v) ==
    CASE v.kind = "map" ->
            {v.keys[i] : i \in 1..Len(v.keys)}
            \cup UNION {KeysOf(v.vals[i]) : i \in 1..Len(v.vals)}
      [] v.kind = "array" -> UNION {KeysOf(v.elems[i]) : i \in 1..Len(v.elems)}
      [] OTHER -> {}

\* the decimal text of an index between -9 and 9
IndexText(i) == IF i < 0 THEN <<"-", DigitChars[1 - i]>> ELSE <<DigitChars[i + 1]>>

\* d is the text of exactly one JSON value
ValidJSON(d) == New(d).ok /\ SkipSpace(d, New(d).pos) > Len(d)

\* the parent a mutator resolved for the path of call c
ParentOf(c) == jsonpath(RootNode(c.root0), FirstPart(c.path))

Resolved(r) == r.err = NoErr \/ r.err = ErrSpecificNode

\* the file write of call c did not fail
WriteNotFailed(c) == c.io = "none" \/ c.io = "ok"

(***************************************************************************)
(* C2.  When the path before the last "." resolves to an object that has   *)
(* the last segment as a key, SetString returns no error, the key then     *)
(* holds the string, the rest of the document is unchanged and the file    *)
(* holds the pretty-printed document.                                      *)
(***************************************************************************)
C2_SetStringOverwrites ==
    LET parent == ParentOf(last)
        key == LastPart(last.path)
    IN  (/\ last.op = "SetString"
         /\ Resolved(parent)
         /\ HasField(parent.node.data, key)
         /\ WriteNotFailed(last))
        => /\ last.err = NoErr
           /\ root = ReplaceAt(last.root0, parent.node.loc,
                               MapPut(parent.node.data, key, JString(last.arg)))
           /\ file = EncodePretty(root)

(***************************************************************************)
(* C3.  SetString with a path whose last segment is not a key of the       *)
(* resolved parent returns the "could not set value" error, leaves the     *)
(* document as it was and does not write the file.                         *)
(***************************************************************************)
C3_SetStringRejectsNewKey ==
    LET parent == ParentOf(last)
        key == LastPart(last.path)
    IN  (/\ last.op = "SetString"
         /\ Resolved(parent)
         /\ ~HasField(parent.node.data, key))
        => /\ last.err = ErrCouldNotSet
           /\ root = last.root0
           /\ file = last.file0
           /\ last.io = "none"

\* SetString("x[1].title") on [{"author":"p"},{"author":"q"}] was rejected
C3_Witness ==
    /\ last.op = "SetString"
    /\ last.path = PathX1Title
    /\ last.root0 = New(FileShelf).val
    /\ last.err = ErrCouldNotSet

(***************************************************************************)
(* C4.  On a document whose root is a non-empty array, AddJSON with the    *)
(* path "x" and a JSON value succeeds (when the file write does), and the  *)
(* document and the file then hold the old elements, in order, followed by *)
(* the value.                                                              *)
(***************************************************************************)
C4_AddJSONAppendsToRootArray ==
    (/\ last.op = "AddJSON"
     /\ last.path = PathX
     /\ IsArray(last.root0)
     /\ Len(last.root0.elems) > 0
     /\ ValidJSON(last.arg)
     /\ WriteNotFailed(last))
    => /\ last.err = NoErr
       /\ root = JArray(Append(last.root0.elems, New(last.arg).val))
       /\ New(file).ok
       /\ New(file).val = root

\* TestAddFile: {"x":"2", "y":"3"} added at "x" to [{"x":"7", "y":"15"}]
C4_Witness ==
    /\ last.op = "AddJSON"
    /\ last.path = PathX
    /\ last.arg = FragTest
    /\ last.file0 = FileTest
    /\ last.err = NoErr
    /\ Len(root.elems) = 2

(***************************************************************************)
(* C5.  On a document whose root is an object in which key K holds a       *)
(* non-empty array, AddJSON at path K succeeds and appends the value to    *)
(* that array, the rest of the document unchanged.                         *)
(***************************************************************************)
C5_AddJSONAppendsToKeyedArray ==
    (/\ last.op = "AddJSON"
     /\ HasField(last.root0, last.path)
     /\ IsArray(MapGet(last.root0, last.path))
     /\ Len(MapGet(last.root0, last.path).elems) > 0
     /\ ValidJSON(last.arg)
     /\ WriteNotFailed(last))
    => /\ last.err = NoErr
       /\ root = ReplaceAt(last.root0, <<KeyStep(last.path)>>,
                           JArray(Append(MapGet(last.root0, last.path).elems,
                                         New(last.arg).val)))
       /\ New(file).ok
       /\ New(file).val = root

(***************************************************************************)
(* C6.  AddJSON at a path whose last segment is a key of the resolved      *)
(* parent object returns the rejection error, and the document and the     *)
(* file stay as they were.                                                 *)
(***************************************************************************)
C6_AddJSONRejectsExistingKey ==
    LET parent == ParentOf(last)
        key == LastPart(last.path)
    IN  (/\ last.op = "AddJSON"
         /\ Resolved(parent)
         /\ HasField(parent.node.data, key))
        => /\ last.err = ErrSingleKey
           /\ root = last.root0
           /\ file = last.file0

(***************************************************************************)
(* C7.  When key NAME of the root holds an array whose element i is an     *)
(* object with a string under KEY, GetString("x.NAME[i].KEY") returns that *)
(* string and no error.                                                    *)
(***************************************************************************)
C7_GetStringReadmePath ==
    \A name \in KeysOf(last.root0), key \in KeysOf(last.root0) :
        (/\ last.op = "GetString"
         /\ HasField(last.root0, name)
         /\ IsArray(MapGet(last.root0, name)))
        => \A i \in 0..(Len(MapGet(last.root0, name).elems) - 1) :
              LET elem == MapGet(last.root0, name).elems[i + 1]
              IN  (/\ last.path = <<"x", ".">> \o name \o <<"[">> \o IndexText(i)
                                  \o <<"]", ".">> \o key
                   /\ HasField(elem, key)
                   /\ MapGet(elem, key).kind = "string")
                  => /\ last.err = NoErr
                     /\ last.str = MapGet(elem, key).s

(***************************************************************************)
(* C8.  When key arr of the root holds an array and 0 <= i < len(arr),     *)
(* GetNode("x.arr[i]") returns element i of the array and no error.        *)
(***************************************************************************)
C8_GetNodeIndexesArray ==
    \A name \in KeysOf(last.root0) :
        (/\ last.op = "GetNode"
         /\ HasField(last.root0, name)
         /\ IsArray(MapGet(last.root0, name)))
        => \A i \in 0..(Len(MapGet(last.root0, name).elems) - 1) :
              (last.path = <<"x", ".">> \o name \o <<"[">> \o IndexText(i) \o <<"]">>)
              => /\ last.err = NoErr
                 /\ last.node = MapGet(last.root0, name).elems[i + 1]

(***************************************************************************)
(* C9.  For an index i out of the range of the addressed array (i >= its   *)
(* length, or i < 0), resolving name[i] returns the not-found error: the   *)
(* process does not abort and no element is returned.                      *)
(***************************************************************************)
\* the array that the segment name[...] addresses in the document v
AddressedArray(v, name) ==
    IF name = <<"x">> THEN v
    ELSE IF HasField(v, name) THEN MapGet(v, name)
    ELSE Nil

C9_IndexOutOfRangeIsAnError ==
    \A name \in KeysOf(last.root0) \cup {<<"x">>}, i \in (0 - 9)..9 :
        (/\ last.op \in {"GetNode", "GetString"}
         /\ last.path = name \o <<"[">> \o IndexText(i) \o <<"]">>
         /\ IsArray(AddressedArray(last.root0, name))
         /\ (i < 0 \/ i >= Len(AddressedArray(last.root0, name).elems)))
        => /\ last.err = ErrCouldNotFindIndex
           /\ alive

(***************************************************************************)
(* C10.  A path of two or more plain dotted field names, "a.b" or "x.a.b", *)
(* resolves through GetNode to the nested field root[a][b] when each       *)
(* object and key exists.                                                  *)
(***************************************************************************)
C10_GetNodeDottedNames ==
    \A a \in KeysOf(last.root0), b \in KeysOf(last.root0) :
        (/\ last.op = "GetNode"
         /\ last.path \in {a \o <<".">> \o b, <<"x", ".">> \o a \o <<".">> \o b}
         /\ HasField(last.root0, a)
         /\ HasField(MapGet(last.root0, a), b))
        => /\ last.err = NoErr
           /\ last.node = MapGet(MapGet(last.root0, a), b)

(***************************************************************************)
(* C11.  GetNode and GetString on a path whose final field name is not a   *)
(* key of the object it is looked up in return an error, not a node or an  *)
(* empty string with a nil error.                                          *)
(***************************************************************************)
C11_AbsentFieldIsAnError ==
    LET parent == ParentOf(last)
        key == LastPart(last.path)
    IN  (/\ last.op \in {"GetNode", "GetString"}
         /\ Resolved(parent)
         /\ IsObject(parent.node.data)
         /\ Len(key) > 0
         /\ key # <<"x">>
         /\ ~Contains(key, "[")
         /\ ~HasField(parent.node.data, key))
        => last.err # NoErr

(***************************************************************************)
(* What the claims about nodes speak of: the value a branch leads to in a  *)
(* document, whatever Go type holds its objects.                           *)
(***************************************************************************)
\* the branch leads to a value of v: every key is there, every index in range
RECURSIVE BranchExists(_, _)
BranchExists(v, branch) ==
    IF Len(branch) = 0 THEN TRUE
    ELSE IF branch[1].isKey
         THEN /\ HasField(v, branch[1].key)
              /\ BranchExists(MapGet(v, branch[1].key), Tail(branch))
         ELSE /\ IsArray(v)
              /\ branch[1].idx >= 0
              /\ branch[1].idx < Len(v.elems)
              /\ BranchExists(v.elems[branch[1].idx + 1], Tail(branch))

\* the value the branch leads to, when it exists
RECURSIVE ValueAt(_, _)
ValueAt(v, branch) ==
    IF Len(branch) = 0 THEN v
    ELSE IF branch[1].isKey THEN ValueAt(MapGet(v, branch[1].key), Tail(branch))
    ELSE ValueAt(v.elems[branch[1].idx + 1], Tail(branch))

\* v is what New returns for a JSON text
FromNew(v) == New(Encode(v)).ok /\ New(Encode(v)).val = v

\* a node that wraps data and is looked into from there
NodeOf(data) == [data |-> data, loc |-> <<>>, at |-> TRUE]

AllCoercionsFail(v) ==
    /\ ~Map(v).ok
    /\ ~Array(v).ok
    /\ ~Bool(v).ok
    /\ ~String(v).ok
    /\ ~CheckInt(v).ok
    /\ ~CheckFloat64(v).ok

\* every accessor with a default returns the default it is given, and the
\* zero value when it is given none
MustReturnsDefaults(v) ==
    /\ MustString(v, <<ValueDD>>) = [panic |-> FALSE, val |-> ValueDD]
    /\ MustString(v, <<>>) = [panic |-> FALSE, val |-> <<>>]
    /\ MustInt(v, <<5150>>) = [panic |-> FALSE, val |-> 5150]
    /\ MustInt(v, <<>>) = [panic |-> FALSE, val |-> 0]
    /\ MustFloat64(v, <<5>>) = [panic |-> FALSE, val |-> 5]
    /\ MustFloat64(v, <<>>) = [panic |-> FALSE, val |-> 0]
    /\ MustBool(v, <<TRUE>>) = [panic |-> FALSE, val |-> TRUE]
    /\ MustBool(v, <<>>) = [panic |-> FALSE, val |-> FALSE]
    /\ MustMap(v, <<NewAnyMap>>) = [panic |-> FALSE, val |-> NewAnyMap]
    /\ MustMap(v, <<>>) = [panic |-> FALSE, val |-> Nil]
    /\ MustArray(v, <<JArray(<<>>)>>) = [panic |-> FALSE, val |-> JArray(<<>>)]
    /\ MustArray(v, <<>>) = [panic |-> FALSE, val |-> Nil]

(***************************************************************************)
(* C12.  When some step of the branch is a key the object does not have,   *)
(* an index out of the range of the array, or a step on a value of the     *)
(* wrong kind, Get returns a node without panicking, every checked         *)
(* coercion of that node fails, and every accessor with a default returns  *)
(* the default (the zero value without one).                               *)
(***************************************************************************)
C12_GetMissReturnsNilNode ==
    (/\ last.op = "Get"
     /\ ~BranchExists(last.root0, last.branch))
    => /\ ~last.panic
       /\ alive
       /\ AllCoercionsFail(last.node)
       /\ MustReturnsDefaults(last.node)

(***************************************************************************)
(* C13.  On a document that New read from the text of a JSON object, the   *)
(* coercion to a map succeeds, a lookup of a key of the object finds the   *)
(* value under it, and a lookup of any other key finds nothing;            *)
(* Get("a").Int() on {"a":2, "b":3} is 2.                                  *)
(***************************************************************************)
C13_NewObjectHasItsKeys ==
    \A k \in {KeyA, KeyD, KeyThis, KeyNope} :
        (/\ last.op = "Get"
         /\ last.branch = <<KeyStep(k)>>
         /\ FromNew(last.root0)
         /\ IsObject(last.root0))
        => /\ Map(last.root0).ok
           /\ last.found = HasField(last.root0, k)
           /\ HasField(last.root0, k) => last.node = MapGet(last.root0, k)
           /\ (last.root0 = New(FileAB).val /\ k = KeyA)
                  => MustInt(last.node, <<>>).val = 2

(***************************************************************************)
(* C14.  SetPath with a non-empty branch on the root of a document that    *)
(* New read from the text of an object leaves the value at the end of the  *)
(* branch, creating the objects that were missing on the way, and keeps    *)
(* every key that is not on the branch, at every level, with its value     *)
(* (SetPath(["this","d"], "dd") on {"this":{"a":"aa","b":"bb","c":"cc"}}   *)
(* keeps this.a, this.b and this.c).                                       *)
(***************************************************************************)
\* new has every key of old that is not on the branch, with the same value,
\* at every level of the branch that old has as an object
RECURSIVE KeysPreserved(_, _, _)
KeysPreserved(old, new, branch) ==
    /\ IsObject(new)
    /\ \A i \in 1..Len(old.keys) :
          (old.keys[i] # branch[1])
          => (HasKey(new, old.keys[i]) /\ MapGet(new, old.keys[i]) = old.vals[i])
    /\ (Len(branch) > 1 /\ HasKey(old, branch[1]) /\ IsObject(MapGet(old, branch[1])))
       => (/\ HasField(new, branch[1])
           /\ KeysPreserved(MapGet(old, branch[1]), MapGet(new, branch[1]),
                            Tail(branch)))

C14_SetPathKeepsOtherKeys ==
    (/\ last.op = "SetPath"
     /\ last.target = <<>>
     /\ Len(last.branch) > 0
     /\ FromNew(last.root0)
     /\ IsObject(last.root0))
    => /\ BranchExists(root, KeySteps(last.branch))
       /\ ValueAt(root, KeySteps(last.branch)) = last.val
       /\ KeysPreserved(last.root0, root, last.branch)

(***************************************************************************)
(* C15.  When the value under the last but one key of the branch is there  *)
(* and is not an object, SetPath discards it: that key then holds an       *)
(* object with the last key of the branch as its only key, and a lookup of *)
(* the branch on the same node returns the value.                          *)
(***************************************************************************)
C15_SetPathOverwritesNonObject ==
    LET n == Len(last.branch)
        holder == KeySteps(SubSeq(last.branch, 1, n - 1))
        found == CheckGetBranch(NodeOf(last.after), KeySteps(last.branch))
    IN  (/\ last.op = "SetPath"
         /\ n >= 2
         /\ BranchExists(last.before, holder)
         /\ ~IsObject(ValueAt(last.before, holder)))
        => /\ BranchExists(last.after, holder)
           /\ IsObject(ValueAt(last.after, holder))
           /\ ValueAt(last.after, holder).keys = <<last.branch[n]>>
           /\ ValueAt(last.after, holder).vals = <<last.val>>
           /\ found.ok
           /\ found.node.data = last.val

\* SetPath(["this","a","foo"], "dd") on {"this":{"a":"aa","b":"bb","c":"cc"}},
\* as in TestPathWillOverwriteExisting: this.a.foo is then "dd"
C15_Witness ==
    /\ last.op = "SetPath"
    /\ last.target = <<>>
    /\ last.root0 = New(FileThis).val
    /\ last.branch = <<KeyThis, KeyA, KeyFoo>>
    /\ GetBranch(RootNode(root), KeySteps(last.branch), nilData).node.data
           = JString(ValueDD)

(***************************************************************************)
(* C16.  Set(k, v) on a node that is a view of an object of the document   *)
(* (the root, or what the target branch leads to) shows in the document:   *)
(* a later Get along the target and k returns v.  After Del(k) the key is  *)
(* no longer in that object.  Set and Del on a node that is not a view of  *)
(* an object leave the document as it was.                                 *)
(***************************************************************************)
C16_SetAndDelThroughViews ==
    LET onObject == /\ BranchExists(last.root0, last.target)
                    /\ IsObject(ValueAt(last.root0, last.target))
        there == Append(last.target, KeyStep(last.key))
    IN  /\ (last.op = "Set" /\ onObject)
           => GetBranch(RootNode(root), there, nilData).node.data = last.val
        /\ (last.op = "Del" /\ onObject)
           => /\ ~BranchExists(root, there)
              /\ ~CheckGetBranch(RootNode(root), there).ok
        /\ (last.op \in {"Set", "Del"} /\ ~onObject)
           => root = last.root0

(***************************************************************************)
(* C19.  The node that Get returns for a missing step always wraps null:   *)
(* whatever Set, SetPath and Del calls were made before, on whatever       *)
(* nodes, a Get that finds nothing returns a node on which every coercion  *)
(* fails.                                                                  *)
(***************************************************************************)
C19_NilNodeWrapsNull ==
    /\ nilData = Nil
    /\ (last.op = "Get" /\ ~last.found /\ ~last.panic)
       => (last.node = Nil /\ AllCoercionsFail(last.node))

(***************************************************************************)
(* C17.  The segment x means the root only as the first segment of a path. *)
(* After an index into the root array, "x[i].x" is a lookup of the field x *)
(* of element i, and "x[i].x[j]" of element j of the array under that      *)
(* field: the x is not dropped, so an element without a field x yields no  *)
(* element of its own.                                                     *)
(***************************************************************************)
C17_LaterXIsAFieldName ==
    \A i \in 0..9, j \in 0..9 :
        (/\ last.op = "GetNode"
         /\ IsArray(last.root0)
         /\ i < Len(last.root0.elems))
        => LET elem == last.root0.elems[i + 1]
               head == <<"x", "[">> \o IndexText(i) \o <<"]", ".", "x">>
           IN  /\ (last.path = head /\ HasField(elem, <<"x">>))
                  => /\ last.err = NoErr
                     /\ last.node = MapGet(elem, <<"x">>)
               /\ (last.path = head /\ ~HasField(elem, <<"x">>))
                  => last.err # ErrSpecificNode
               /\ (last.path = head \o <<"[">> \o IndexText(j) \o <<"]">>)
                  => IF /\ HasField(elem, <<"x">>)
                        /\ IsArray(MapGet(elem, <<"x">>))
                        /\ j < Len(MapGet(elem, <<"x">>).elems)
                     THEN /\ last.err = NoErr
                          /\ last.node = MapGet(elem, <<"x">>).elems[j + 1]
                     ELSE last.err # NoErr

(***************************************************************************)
(* C18.  Resolving the empty path, or "x", returns the node it started     *)
(* from with ErrSpecificNode.  SetString and AddJSON take that for a       *)
(* success and use the node as the parent, so a path of one segment works  *)
(* on the root; with any other error of the resolver they return the error *)
(* and neither the document nor the file is touched.                       *)
(***************************************************************************)
C18_SentinelIsNotAnError ==
    LET parent == ParentOf(last)
        lastpart == LastPart(last.path)
        rootnode == RootNode(last.root0)
    IN  (last.op \in {"SetString", "AddJSON"})
        => /\ (FirstPart(last.path) \in {<<>>, <<"x">>})
              => (parent.err = ErrSpecificNode /\ parent.node = rootnode)
           /\ (parent.err = ErrSpecificNode /\ last.op = "SetString")
              => IF CheckGet(parent.node, lastpart).ok
                 THEN last.err \in {NoErr, ErrIO}
                 ELSE last.err = ErrCouldNotSet
           /\ (/\ parent.err = ErrSpecificNode
               /\ parent.node = rootnode
               /\ last.op = "AddJSON"
               /\ IsArray(last.root0)
               /\ Len(last.root0.elems) > 0
               /\ ValidJSON(last.arg)
               /\ WriteNotFailed(last))
              => /\ last.err = NoErr
                 /\ root = JArray(Append(last.root0.elems, New(last.arg).val))
           /\ (parent.err \notin {NoErr, ErrSpecificNode})
              => /\ last.err = parent.err
                 /\ root = last.root0
                 /\ file = last.file0
                 /\ last.io = "none"

\* after an AddJSON at a one-segment path had grown the root array of
\* [{"author":"p"},{"author":"q"}], a call with the path x[z].k was turned
\* down with the resolver's error
C18_Witness ==
    /\ last.op \in {"SetString", "AddJSON"}
    /\ last.path = PathXBadK
    /\ last.err = ErrInvalidIndex
    /\ IsArray(root)
    /\ Len(root.elems) = 3
    /\ root = last.root0
    /\ New(FileShelf).val = JArray(SubSeq(root.elems, 1, 2))

(***************************************************************************)
(* C20.  AddJSON addressed, through an index of the root array, to an      *)
(* array that has a twin earlier in the document (an element with the same *)
(* encoding, which is where that encoding first occurs in the text).       *)
(***************************************************************************)
\* where element i (from 0) of the array v starts in Encode(v)
ElemStart(v, i) ==
    IF i = 0 THEN 2 ELSE Len(Encode(JArray(SubSeq(v.elems, 1, i)))) + 1

\* the first element of the array v with the encoding of element j
FirstTwin(v, j) ==
    CHOOSE i \in 0..j :
        /\ Encode(v.elems[i + 1]) = Encode(v.elems[j + 1])
        /\ \A k \in 0..(i - 1) : Encode(v.elems[k + 1]) # Encode(v.elems[j + 1])

\* call c is an AddJSON of a JSON value whose parent is element j of the root
\* array, an array whose encoding first occurs in the document as an earlier
\* element
AddressedToLaterTwin(c) ==
    LET parent == ParentOf(c)
    IN  /\ c.op = "AddJSON"
        /\ Resolved(parent)
        /\ IsArray(c.root0)
        /\ parent.node.at
        /\ Len(parent.node.loc) = 1
        /\ ~parent.node.loc[1].isKey
        /\ IsArray(parent.node.data)
        /\ FirstTwin(c.root0, parent.node.loc[1].idx) < parent.node.loc[1].idx
        /\ IndexOf(Encode(c.root0), Encode(parent.node.data))
               = ElemStart(c.root0, FirstTwin(c.root0, parent.node.loc[1].idx))
        /\ ValidJSON(c.arg)
        /\ WriteNotFailed(c)

\* the call succeeded and the value went to the end of the first twin, every
\* other element of the root, the addressed one included, being as before
AppendedToFirstTwin(c) ==
    LET i == FirstTwin(c.root0, ParentOf(c).node.loc[1].idx)
    IN  /\ c.err = NoErr
        /\ root = [c.root0 EXCEPT !.elems[i + 1] =
                       JArray(Append(@.elems, New(c.arg).val))]

AddressedToEmptyOrObject(c) ==
    LET parent == ParentOf(c)
    IN  /\ c.op = "AddJSON"
        /\ Resolved(parent)
        /\ parent.node.at
        /\ \/ IsArray(parent.node.data) /\ Len(parent.node.data.elems) = 0
           \/ IsObject(parent.node.data) /\ ValidJSON(c.arg)

\* the text AddJSON replaces begins where a value of the document begins: the
\* parent is the root, or an element of the root array whose encoding first
\* occurs in the document as an element of the root array
SplicedAtAValue(c) ==
    LET parent == ParentOf(c)
    IN  \/ parent.node.loc = <<>>
        \/ /\ IsArray(c.root0)
           /\ Len(parent.node.loc) = 1
           /\ ~parent.node.loc[1].isKey
           /\ IndexOf(Encode(c.root0), Encode(parent.node.data))
                  = ElemStart(c.root0, FirstTwin(c.root0, parent.node.loc[1].idx))

\* the node the call addressed holds what it held before the call
AddressedAsBefore(c) ==
    LET parent == ParentOf(c)
    IN  IF parent.node.loc = <<>> THEN root = c.root0
        ELSE (Len(parent.node.loc) = 1 /\ ~parent.node.loc[1].isKey)
             => /\ IsArray(root)
                /\ root.elems[parent.node.loc[1].idx + 1] = parent.node.data

\* the call returned the parse error, nothing written, root and file as before
RejectedUnchanged(c) ==
    /\ c.err = ErrDecode
    /\ c.io = "none"
    /\ root = c.root0
    /\ file = c.file0

FileHoldsRoot(f, r) == New(f).ok /\ New(f).val = r

\* a step that is a call of SetString or AddJSON whose file write, if it made
\* one, succeeded
CallWithoutWriteFailure ==
    /\ nops' = nops + 1
    /\ last'.op \in {"SetString", "AddJSON"}
    /\ WriteNotFailed(last')

WriteFailed(c) ==
    /\ c.op \in {"SetString", "AddJSON"}
    /\ c.io \in {"open fails", "write fails"}

\* call c is an AddJSON of a JSON value at a one-segment path on a root array
\* that is not empty
AppendsToRoot(c) ==
    /\ c.op = "AddJSON"
    /\ ParentOf(c).err = ErrSpecificNode
    /\ ParentOf(c).node = RootNode(c.root0)
    /\ IsArray(c.root0)
    /\ Len(c.root0.elems) > 0
    /\ ValidJSON(c.arg)

SetExistingKey(w) ==
    LET c == calls[w]
        parent == jsonpath(RootNode(c.root0), FirstPart(c.path))
    IN  /\ c.op = "SetString"
        /\ wpc[w] = "done"
        /\ c.root0 # Nil
        /\ Resolved(parent)
        /\ HasField(parent.node.data, LastPart(c.path))

\* the key of the call of w holds the string of the call in the in-memory root
HoldsUpdate(w) ==
    /\ IsObject(root)
    /\ HasKey(root, LastPart(calls[w].path))
    /\ MapGet(root, LastPart(calls[w].path)) = JString(calls[w].arg)

(***************************************************************************)
(* C21.  Two concurrent SetString calls on different existing keys of one  *)
(* session both return success with both updates in the in-memory          *)
(* document, each having changed the tree and encoded it before taking the *)
(* lock, so that the file is the snapshot one of them encoded (a stale one *)
(* when the call that encoded first writes last).                          *)
(***************************************************************************)
C21_BothSetStringsSucceed ==
    \A v, w \in Writers :
        (/\ v # w
         /\ SetExistingKey(v)
         /\ SetExistingKey(w)
         /\ calls[v].path # calls[w].path)
        => /\ calls[v].err = NoErr
           /\ calls[w].err = NoErr
           /\ HoldsUpdate(v)
           /\ HoldsUpdate(w)
           /\ file \in {wdata[v], wdata[w]}

(***************************************************************************)
(* C22.  Two package-level calls made at once on one file.                 *)
(***************************************************************************)
\* the call of w is a mutator that has written its document and returned nil
WroteAndReturned(w) ==
    /\ wpc[w] = "done"
    /\ calls[w].op \in {"SetString", "AddJSON"}
    /\ calls[w].err = NoErr

\* the call of w has its bytes for the file
HasData(w) == wpc[w] \in {"open", "write"} \/ WroteAndReturned(w)

\* the bytes of the call of w come from the document w read and the update of
\* w alone, whatever the other calls did since
BuiltFromOwnCopy(w) ==
    /\ wdata[w] = EncodePretty(calls[w].js)
    /\ (/\ calls[w].op = "AddJSON"
        /\ IsArray(calls[w].root0)
        /\ Len(calls[w].root0.elems) > 0
        /\ ValidJSON(calls[w].arg))
       => calls[w].js = JArray(Append(calls[w].root0.elems, New(calls[w].arg).val))

\* p is the beginning of f
IsPrefix(p, f) == Len(p) <= Len(f) /\ SubSeq(f, 1, Len(p)) = p

(***************************************************************************)
(* C22 as stated.  Once two concurrent package-level mutators have both    *)
(* returned success, the file is wholly the document of one of them, the   *)
(* last writer (with the update of the other lost when the last writer had *)
(* read the file before the other wrote).                                  *)
(***************************************************************************)
C22_LastWriterReplacesFile ==
    (\A w \in Writers : WroteAndReturned(w))
    => \E w \in Writers : file = wdata[w]

(***************************************************************************)
(* C22 amended.  Each call writes the document it built from the copy it   *)
(* read and from its own update.  Once all calls have returned success the *)
(* file begins with the document of one of them, and it is wholly that     *)
(* document when no call opened the file between the open and the write of *)
(* another.                                                                *)
(***************************************************************************)
C22_LastWriterReplacesFileUnlessOverlapped ==
    /\ \A w \in Writers : HasData(w) => BuiltFromOwnCopy(w)
    /\ (\A w \in Writers : WroteAndReturned(w))
       => /\ \E w \in Writers : IsPrefix(wdata[w], file)
          /\ (\A w \in Writers : ~calls[w].overlapped)
             => \E w \in Writers : file = wdata[w]

\* two AddJSON calls of different fragments both read the file as it was at
\* first and both returned nil, their writes one after the other: the file
\* is the document of one of them and the fragment of the other is not in it
C22_Witness ==
    \E v, w \in Writers :
        /\ v # w
        /\ WroteAndReturned(v)
        /\ WroteAndReturned(w)
        /\ ~calls[v].overlapped /\ ~calls[w].overlapped
        /\ calls[v].arg # calls[w].arg
        /\ calls[v].root0 = root
        /\ calls[w].root0 = root
        /\ file = wdata[v]
        /\ New(file).val = JArray(Append(root.elems, New(calls[v].arg).val))

====
